---- MODULE Spec2Model ----
(***************************************************************************)
(* MedNote front end: the recording components (Recorder,                  *)
(* VideoCallCapture), the shared transcript held by App, the diagnosis     *)
(* reconciliation of DiagnoseView and the history store.                   *)
(*                                                                         *)
(* Strings are sequences of tokens: a token is a word, a blank " ", a      *)
(* line feed "\n" or a punctuation mark.  Concatenation is \o, trim()      *)
(* strips blank and line-feed tokens at both ends.                         *)
(***************************************************************************)
EXTENDS Integers, Sequences, FiniteSets, TLC

\* ------------------------------------------------------------------ bounds
MaxUtter   == 2   \* lines a recording component commits before the model stops feeding it
MaxStreams == 2   \* audio streams acquired in one run
MaxPending == 2   \* start calls waiting for the media prompt, per component
MaxTasks   == 2   \* background captures in flight
MaxFinalize == 2  \* finalize actions in one run
MaxChunks  == 2   \* chunks one diagnosis stream delivers
MaxLearn   == 2   \* learn calls one profile store receives in the calls of the hook

\* ------------------------------------------------------------- value sets
Languages == {"pt", "en"}
Names     == {<< >>, <<"Ana">>}
Phrases   == {<<"a">>, <<" ", "b">>}
UserTexts == {<<" ">>, <<"x">>, <<"Dr", ":", " ", "y", "\n">>}
DiagVals  == {"dxA", "dxB"}

\* ---------------------------------------------------------------- strings
IsSpace(t) == t \in {" ", "\n"}

RECURSIVE TrimStart(_)
TrimStart(s) ==
    IF s = << >> THEN << >>
    ELSE IF IsSpace(Head(s)) THEN TrimStart(Tail(s)) ELSE s

RECURSIVE TrimEnd(_)
TrimEnd(s) ==
    IF s = << >> THEN << >>
    ELSE IF IsSpace(s[Len(s)]) THEN TrimEnd(SubSeq(s, 1, Len(s) - 1)) ELSE s

Trim(s) == TrimEnd(TrimStart(s))

RECURSIVE LineCount(_)
LineCount(s) ==
    IF s = << >> THEN 0
    ELSE (IF Head(s) = "\n" THEN 1 ELSE 0) + LineCount(Tail(s))

IsPrefixOf(p, s) == Len(p) <= Len(s) /\ SubSeq(s, 1, Len(p)) = p

\* ------------------------------------------------------------------ state
VARIABLES
    mounted,            \* the App tree is mounted
    language,           \* App state
    transcript,         \* App state, written through onTranscriptChange / onChange
    tracks,             \* every audio stream acquired so far: [owner, live]
    \* Recorder
    recording, patientName, speechCountRef, finalRef, streamRef,
    isProcessingRef, lastSpeakerRef, lastTranscriptRef,
    recStarted,         \* the instance in Recorder.recognitionRef is listening
    startCalls,         \* Recorder.start() calls waiting in getUserMedia
    bgTasks,            \* processAudioInBackground calls in flight
    \* VideoCallCapture
    status, vcSpeechCountRef, finalTranscriptRef, vcLastTranscriptRef,
    vcStreamRef,
    vcRecognitionRef,   \* "null", or the state of the instance: "idle" / "started"
    vcCalls,            \* startCapture() calls in flight: [pc, stream]
    \* DiagnoseView
    loading, result,
    fins,               \* one record per finalize action (a call of onFinalize)
    \* history store
    storage,            \* localStorage entry of KEY: [present, text]
    items,              \* HistoryDrawer state
    \* useVoiceAI
    voiceProfiles,      \* the Map of profiles, in insertion order
    lastAnalysisRef,    \* << >> is null, <<analysis>> otherwise
    \* history variables
    voiceCall,          \* the last call of the useVoiceAI hook: its input and what it returned
    dropped             \* the component whose last recognition callback was discarded
                        \* as a duplicate ("none" otherwise)

appVars == <<mounted, language, transcript, tracks>>
recVars == <<recording, patientName, speechCountRef, finalRef, streamRef,
             isProcessingRef, lastSpeakerRef, lastTranscriptRef, recStarted,
             startCalls, bgTasks>>
vccVars == <<status, vcSpeechCountRef, finalTranscriptRef, vcLastTranscriptRef,
             vcStreamRef, vcRecognitionRef, vcCalls>>
diagVars == <<loading, result, fins, storage, items>>
voiceVars == <<voiceProfiles, lastAnalysisRef, voiceCall>>
vars == <<appVars, recVars, vccVars, diagVars, voiceVars, dropped>>

\* ----------------------------------------------------------- shared helpers
\* track.stop() on every track of stream s (0 is "no stream")
StopTracks(tr, s) ==
    IF s = 0 THEN tr ELSE [tr EXCEPT ![s].live = FALSE]

RemoveAt(q, i) == SubSeq(q, 1, i - 1) \o SubSeq(q, i + 1, Len(q))

\* A recognition event: the results from event.resultIndex on.
Seg(t, f) == [transcript |-> t, isFinal |-> f]
Events ==
    {<<Seg(p, f)>> : p \in Phrases, f \in BOOLEAN}
    \cup {<<Seg(<<"a">>, TRUE), Seg(<<" ", "b">>, f)>> : f \in BOOLEAN}
    \cup {<<Seg(<<"a">>, FALSE), Seg(<<" ", "b">>, FALSE)>>}

RECURSIVE FinalText(_)
FinalText(ev) ==
    IF ev = << >> THEN << >>
    ELSE (IF Head(ev).isFinal THEN Head(ev).transcript \o <<" ">> ELSE << >>)
         \o FinalText(Tail(ev))

RECURSIVE InterimText(_)
InterimText(ev) ==
    IF ev = << >> THEN << >>
    ELSE (IF Head(ev).isFinal THEN << >> ELSE Head(ev).transcript)
         \o InterimText(Tail(ev))

\* the duplicate guard never fires
IsDuplicateNever(trimmedText, last) == FALSE

\* "if (trimmedText === lastTranscriptRef.current) return"
IsDuplicate(trimmedText, last) == trimmedText = last

AlternationLabel(count) == IF count % 2 = 0 THEN "doctor" ELSE "patient"

\* getSpeakerPrefix of RecorderClean.tsx
getSpeakerPrefix(speaker, name, lang) ==
    CASE speaker = "doctor" ->
            IF lang = "pt" THEN <<"Medico", ":", " ">> ELSE <<"Doctor", ":", " ">>
      [] speaker = "patient" ->
            (IF Trim(name) # << >> THEN Trim(name)
             ELSE IF lang = "pt" THEN <<"Paciente">> ELSE <<"Patient">>)
            \o <<":", " ">>
      [] OTHER -> <<"robot", " ">>

\* getSpeakerPrefix of VideoCallCapture
vcGetSpeakerPrefix(speaker, name, lang) ==
    CASE speaker = "doctor" ->
            IF lang = "pt" THEN <<"Medico", ":", " ">> ELSE <<"Doctor", ":", " ">>
      [] speaker = "patient" ->
            (IF Trim(name) # << >> THEN Trim(name)
             ELSE IF lang = "pt" THEN <<"Paciente">> ELSE <<"Patient">>)
            \o <<":", " ">>
      [] OTHER -> <<"Sistema", ":", " ">>

\* VideoCallCapture receives App.currentPatientName, which App only ever sets to ""
currentPatientName == << >>

\* ============================================================ useVoiceAI
\* Numbers are fixed-point: One stands for 1.0.  The audio inputs below give
\* feature values that are multiples of 0.1, so that three successive weighted
\* averages of them are exact in this representation.
One == 10000

Abs(x) == IF x < 0 THEN -x ELSE x
Min2(a, b) == IF a < b THEN a ELSE b
Max2(a, b) == IF a > b THEN a ELSE b

\* What the analysis of a decoded snippet measures: pitch (Hz), intensity (dB),
\* average amplitude (0..1) and speech rate, as calculatePitchOptimized,
\* calculateIntensity, calculateFormantsOptimized and calculateSpeechRateOptimized
\* return them.
Audio(p, i, a, r) == [decodable |-> TRUE, pitch |-> p * One, intensity |-> i * One,
                      avgAmplitude |-> a * One, speechRate |-> r * One]
AudioSamples ==
    {Audio(100, -70, 0, 2), Audio(140, -70, 0, 2),
     Audio(500, -10, 1, 14), Audio(900, -70, 0, 2)}
\* a blob whose decodeAudioData rejects
Undecodable == [decodable |-> FALSE, pitch |-> 0, intensity |-> 0,
                avgAmplitude |-> 0, speechRate |-> 0]
AudioInputs == AudioSamples \cup {Undecodable}
SpeakerLabels == {"doctor", "patient"}

\* extractVoiceFeatures
extractVoiceFeatures(audio) ==
    [avgPitch      |-> audio.pitch,
     pitchVariance |-> audio.pitch \div 10,
     avgIntensity  |-> audio.intensity,
     formantF1     |-> 500 * One + 300 * audio.avgAmplitude,
     formantF2     |-> 1200 * One + 500 * audio.avgAmplitude,
     speechRate    |-> audio.speechRate,
     voiceQuality  |-> IF audio.intensity > -20 * One THEN 8 * (One \div 10)
                                                      ELSE 4 * (One \div 10)]

ZeroFeatures ==
    [avgPitch |-> 0, pitchVariance |-> 0, avgIntensity |-> 0, formantF1 |-> 0,
     formantF2 |-> 0, speechRate |-> 0, voiceQuality |-> 0]

\* A similarity s is held as s * SimOne: the weights are twentieths and the
\* normalisation scales divide 6000.
SimOne == 20 * 6000 * One

\* weights.x * (1 - |d| / scale), with weights.x = w / 20
SimTerm(w, scale, d) == w * (6000 * One - Abs(d) * (6000 \div scale))

\* calculateSimilarity
calculateSimilarity(features1, features2) ==
    LET similarity ==
            SimTerm(5, 400,  features1.avgPitch - features2.avgPitch)
          + SimTerm(3, 100,  features1.pitchVariance - features2.pitchVariance)
          + SimTerm(2, 60,   features1.avgIntensity - features2.avgIntensity)
          + SimTerm(4, 1000, features1.formantF1 - features2.formantF1)
          + SimTerm(4, 2000, features1.formantF2 - features2.formantF2)
          + SimTerm(1, 10,   features1.speechRate - features2.speechRate)
          + SimTerm(1, 1,    features1.voiceQuality - features2.voiceQuality)
    IN  Max2(0, Min2(SimOne, similarity))

\* "const threshold = 0.4" and the cold-start confidence 0.7
threshold == 4 * (SimOne \div 10)
coldStartConfidence == 7 * (SimOne \div 10)

\* voiceProfiles.forEach(...): the best match after the profiles of ps, from best
RECURSIVE bestMatchOver(_, _, _)
bestMatchOver(ps, features, best) ==
    IF ps = << >> THEN best
    ELSE LET similarity == calculateSimilarity(features, Head(ps).features)
         IN  bestMatchOver(Tail(ps), features,
                 IF similarity > best.similarity
                 THEN [speaker |-> Head(ps).name, similarity |-> similarity]
                 ELSE best)

\* the empty store is not treated apart
identifySpeakerNoColdStart(profiles, audio) ==
    IF ~audio.decodable
    THEN [speaker |-> "auto", confidence |-> 0, features |-> ZeroFeatures]
    ELSE LET features  == extractVoiceFeatures(audio)
             bestMatch == bestMatchOver(profiles, features,
                              [speaker |-> "auto", similarity |-> 0])
         IN  [speaker |-> IF bestMatch.similarity > threshold
                          THEN bestMatch.speaker ELSE "auto",
              confidence |-> bestMatch.similarity,
              features |-> features]

\* a similarity equal to the threshold is accepted
identifySpeakerInclusive(profiles, audio) ==
    IF ~audio.decodable
    THEN [speaker |-> "auto", confidence |-> 0, features |-> ZeroFeatures]
    ELSE LET features  == extractVoiceFeatures(audio)
             bestMatch == bestMatchOver(profiles, features,
                              [speaker |-> "auto", similarity |-> 0])
         IN  IF Len(profiles) = 0
             THEN [speaker |-> "doctor", confidence |-> coldStartConfidence,
                   features |-> features]
             ELSE [speaker |-> IF bestMatch.similarity >= threshold
                               THEN bestMatch.speaker ELSE "auto",
                   confidence |-> bestMatch.similarity,
                   features |-> features]

\* identifySpeaker: the VoiceAnalysis it returns
identifySpeaker(profiles, audio) ==
    IF ~audio.decodable
    THEN [speaker |-> "auto", confidence |-> 0, features |-> ZeroFeatures]
    ELSE LET features  == extractVoiceFeatures(audio)
             bestMatch == bestMatchOver(profiles, features,
                              [speaker |-> "auto", similarity |-> 0])
         IN  IF Len(profiles) = 0
             THEN [speaker |-> "doctor", confidence |-> coldStartConfidence,
                   features |-> features]
             ELSE [speaker |-> IF bestMatch.similarity > threshold
                               THEN bestMatch.speaker ELSE "auto",
                   confidence |-> bestMatch.similarity,
                   features |-> features]

\* "const weight = 0.3", in tenths
weight == 3

\* the plain mean of profile and sample
WeightedAverageEven(existing, sample) == (existing + sample) \div 2

\* existing * (1 - weight) + sample * weight
WeightedAverage(existing, sample) ==
    (existing * (10 - weight) + sample * weight) \div 10

ProfileIndex(profiles, speakerType) ==
    IF \E i \in 1..Len(profiles) : profiles[i].name = speakerType
    THEN CHOOSE i \in 1..Len(profiles) : profiles[i].name = speakerType
    ELSE 0

\* the updater that learnVoice passes to setVoiceProfiles
learnVoice(profiles, speakerType, features) ==
    LET i == ProfileIndex(profiles, speakerType)
    IN  IF i # 0
        THEN [profiles EXCEPT
                 ![i].features = [f \in DOMAIN features |->
                                     WeightedAverage(profiles[i].features[f], features[f])],
                 ![i].samples = @ + 1]
        ELSE Append(profiles, [id |-> speakerType, name |-> speakerType,
                               features |-> features, samples |-> 1])

RECURSIVE TotalSamples(_)
TotalSamples(profiles) ==
    IF profiles = << >> THEN 0
    ELSE Head(profiles).samples + TotalSamples(Tail(profiles))

\* ------------------------------------------------------------------- Init
Init ==
    /\ mounted = TRUE
    /\ language = "pt"
    /\ transcript = << >>
    /\ tracks = << >>
    /\ recording = FALSE
    /\ patientName = << >>
    /\ speechCountRef = 0
    /\ finalRef = << >>
    /\ streamRef = 0
    /\ isProcessingRef = FALSE
    /\ lastSpeakerRef = "auto"
    /\ lastTranscriptRef = << >>
    /\ recStarted = FALSE
    /\ startCalls = 0
    /\ bgTasks = << >>
    /\ status = "idle"
    /\ vcSpeechCountRef = 0
    /\ finalTranscriptRef = << >>
    /\ vcLastTranscriptRef = << >>
    /\ vcStreamRef = 0
    /\ vcRecognitionRef = "idle"
    /\ vcCalls = << >>
    /\ loading = FALSE
    /\ result = "null"
    /\ fins = << >>
    /\ storage = [present |-> FALSE, text |-> << >>]
    /\ items = << >>
    /\ voiceProfiles = << >>
    /\ lastAnalysisRef = << >>
    /\ voiceCall = [op |-> "none"]
    /\ dropped = "none"

\* One capture source per consultation: the model starts a component only
\* while the other one is in the state its reset() leaves.
RecorderUnused ==
    /\ ~recording /\ startCalls = 0 /\ streamRef = 0 /\ bgTasks = << >>
    /\ finalRef = << >> /\ speechCountRef = 0 /\ lastTranscriptRef = << >>

VideoCallUnused ==
    /\ status = "idle" /\ vcCalls = << >> /\ vcStreamRef = 0
    /\ finalTranscriptRef = << >> /\ vcSpeechCountRef = 0
    /\ vcLastTranscriptRef = << >>

\* =============================================================== Recorder
\* what the 1 s snippet of a background capture can hold
CaptureInputs == {Audio(100, -70, 0, 2), Undecodable}

\* history: stop() or reset() ran while these captures were in flight
MarkStale(tasks) == [i \in 1..Len(tasks) |-> [tasks[i] EXCEPT !.stale = TRUE]]

\* start(): up to the await of getUserMedia
RecStartClick ==
    /\ mounted /\ ~recording
    /\ VideoCallUnused
    /\ startCalls < MaxPending
    /\ startCalls' = startCalls + 1
    /\ UNCHANGED <<appVars, vccVars, recording, patientName, speechCountRef,
                   finalRef, streamRef, isProcessingRef, lastSpeakerRef,
                   lastTranscriptRef, recStarted, bgTasks>>
    /\ UNCHANGED <<diagVars, dropped>>
    /\ UNCHANGED voiceVars

\* start(): getUserMedia rejected, the catch only logs
RecStartDenied ==
    /\ startCalls > 0
    /\ startCalls' = startCalls - 1
    /\ UNCHANGED <<appVars, vccVars, recording, patientName, speechCountRef,
                   finalRef, streamRef, isProcessingRef, lastSpeakerRef,
                   lastTranscriptRef, recStarted, bgTasks>>
    /\ UNCHANGED <<diagVars, dropped>>
    /\ UNCHANGED voiceVars

\* start(): the continuation after getUserMedia resolved
RecStartBody ==
    /\ tracks' = Append(tracks, [owner |-> "rec", live |-> TRUE])
    /\ streamRef' = Len(tracks) + 1
    /\ transcript' = << >>
    /\ finalRef' = << >>
    /\ recording' = TRUE
    /\ recStarted' = TRUE      \* start() on a listening instance throws; the catch logs
    /\ UNCHANGED <<patientName, speechCountRef, isProcessingRef,
                   lastSpeakerRef, lastTranscriptRef, bgTasks>>

RecStartAcquired ==
    /\ startCalls > 0
    /\ Len(tracks) < MaxStreams
    /\ startCalls' = startCalls - 1
    /\ RecStartBody
    /\ UNCHANGED <<mounted, language, vccVars>>
    /\ UNCHANGED <<diagVars, dropped>>
    /\ UNCHANGED voiceVars

\* the interim text of the callback is committed with the line
RecOnResultBodyInterim(ev) ==
    LET finalTranscript   == FinalText(ev)
        interimTranscript == InterimText(ev)
        trimmedText       == Trim(finalTranscript)
        speakerType       == AlternationLabel(speechCountRef)
        formattedText     == getSpeakerPrefix(speakerType, patientName, language)
                             \o trimmedText \o interimTranscript \o <<"\n">>
        spawn             == streamRef # 0 /\ ~isProcessingRef
    IN  IF finalTranscript # << >>
        THEN IF IsDuplicate(trimmedText, lastTranscriptRef)
             THEN /\ dropped' = "rec"
                  /\ UNCHANGED <<transcript, speechCountRef, finalRef, isProcessingRef,
                                 lastSpeakerRef, lastTranscriptRef, bgTasks>>
             ELSE /\ dropped' = "none"
                  /\ lastTranscriptRef' = trimmedText
                  /\ speechCountRef' = speechCountRef + 1
                  /\ finalRef' = finalRef \o formattedText
                  /\ lastSpeakerRef' = speakerType
                  /\ IF spawn
                     THEN /\ Len(bgTasks) < MaxTasks
                          /\ isProcessingRef' = TRUE
                          /\ bgTasks' = Append(bgTasks, [speaker |-> speakerType,
                                                         stream |-> streamRef,
                                                         stale |-> FALSE])
                     ELSE UNCHANGED <<isProcessingRef, bgTasks>>
                  /\ transcript' = finalRef' \o interimTranscript
        ELSE /\ dropped' = "none"
             /\ transcript' = finalRef \o interimTranscript
             /\ UNCHANGED <<speechCountRef, finalRef, isProcessingRef,
                            lastSpeakerRef, lastTranscriptRef, bgTasks>>

\* the callback awaits the capture: the line is published when the task is done
RecOnResultBodyAwait(ev) ==
    LET finalTranscript   == FinalText(ev)
        interimTranscript == InterimText(ev)
        trimmedText       == Trim(finalTranscript)
        speakerType       == AlternationLabel(speechCountRef)
        formattedText     == getSpeakerPrefix(speakerType, patientName, language)
                             \o trimmedText \o <<"\n">>
        spawn             == streamRef # 0 /\ ~isProcessingRef
    IN  IF finalTranscript # << >>
        THEN IF IsDuplicate(trimmedText, lastTranscriptRef)
             THEN /\ dropped' = "rec"
                  /\ UNCHANGED <<transcript, speechCountRef, finalRef, isProcessingRef,
                                 lastSpeakerRef, lastTranscriptRef, bgTasks>>
             ELSE /\ dropped' = "none"
                  /\ lastTranscriptRef' = trimmedText
                  /\ speechCountRef' = speechCountRef + 1
                  /\ finalRef' = finalRef \o formattedText
                  /\ lastSpeakerRef' = speakerType
                  /\ IF spawn
                     THEN /\ Len(bgTasks) < MaxTasks
                          /\ isProcessingRef' = TRUE
                          /\ bgTasks' = Append(bgTasks, [speaker |-> speakerType,
                                                         stream |-> streamRef,
                                                         stale |-> FALSE])
                     ELSE UNCHANGED <<isProcessingRef, bgTasks>>
                  /\ transcript' = IF spawn THEN transcript
                                   ELSE finalRef' \o interimTranscript
        ELSE /\ dropped' = "none"
             /\ transcript' = finalRef \o interimTranscript
             /\ UNCHANGED <<speechCountRef, finalRef, isProcessingRef,
                            lastSpeakerRef, lastTranscriptRef, bgTasks>>

\* rec.onresult
RecOnResultBody(ev) ==
    LET finalTranscript   == FinalText(ev)
        interimTranscript == InterimText(ev)
        trimmedText       == Trim(finalTranscript)
        speakerType       == AlternationLabel(speechCountRef)
        formattedText     == getSpeakerPrefix(speakerType, patientName, language)
                             \o trimmedText \o <<"\n">>
        spawn             == streamRef # 0 /\ ~isProcessingRef
    IN  IF finalTranscript # << >>
        THEN IF IsDuplicate(trimmedText, lastTranscriptRef)
             THEN /\ dropped' = "rec"
                  /\ UNCHANGED <<transcript, speechCountRef, finalRef, isProcessingRef,
                                 lastSpeakerRef, lastTranscriptRef, bgTasks>>
             ELSE /\ dropped' = "none"
                  /\ lastTranscriptRef' = trimmedText
                  /\ speechCountRef' = speechCountRef + 1
                  /\ finalRef' = finalRef \o formattedText
                  /\ lastSpeakerRef' = speakerType
                  /\ IF spawn
                     THEN /\ Len(bgTasks) < MaxTasks
                          /\ isProcessingRef' = TRUE
                          /\ bgTasks' = Append(bgTasks, [speaker |-> speakerType,
                                                         stream |-> streamRef,
                                                         stale |-> FALSE])
                     ELSE UNCHANGED <<isProcessingRef, bgTasks>>
                  /\ transcript' = finalRef' \o interimTranscript
        ELSE /\ dropped' = "none"
             /\ transcript' = finalRef \o interimTranscript
             /\ UNCHANGED <<speechCountRef, finalRef, isProcessingRef,
                            lastSpeakerRef, lastTranscriptRef, bgTasks>>

RecOnResult ==
    /\ recStarted
    /\ speechCountRef < MaxUtter
    /\ \E ev \in Events : RecOnResultBody(ev)
    /\ UNCHANGED <<mounted, language, tracks, vccVars, recording, patientName,
                   streamRef, recStarted, startCalls>>
    /\ UNCHANGED diagVars
    /\ UNCHANGED voiceVars

\* rec.onerror: the handler only logs; the recognition service ends the session
\* after an error event and nothing starts it again
RecOnError ==
    /\ recStarted
    /\ recStarted' = FALSE
    /\ UNCHANGED <<appVars, vccVars, recording, patientName, speechCountRef,
                   finalRef, streamRef, isProcessingRef, lastSpeakerRef,
                   lastTranscriptRef, startCalls, bgTasks>>
    /\ UNCHANGED <<diagVars, dropped>>
    /\ UNCHANGED voiceVars

\* processAudioInBackground: the capture has ended and learnVoice has run on its
\* blob (a blob that does not decode changes nothing), then the finally clause
RecTaskDone ==
    /\ \E i \in 1..Len(bgTasks), audio \in CaptureInputs :
          /\ bgTasks' = RemoveAt(bgTasks, i)
          /\ voiceProfiles' =
                 IF mounted /\ audio.decodable
                 THEN learnVoice(voiceProfiles, bgTasks[i].speaker,
                                 extractVoiceFeatures(audio))
                 ELSE voiceProfiles
          /\ voiceCall' = [op |-> "learn", speakerType |-> bgTasks[i].speaker,
                           audio |-> audio, stale |-> bgTasks[i].stale]
    /\ isProcessingRef' = FALSE
    /\ UNCHANGED lastAnalysisRef
    /\ UNCHANGED <<appVars, vccVars, recording, patientName, speechCountRef,
                   finalRef, streamRef, lastSpeakerRef, lastTranscriptRef,
                   recStarted, startCalls>>
    /\ UNCHANGED <<diagVars, dropped>>

\* stop()
RecorderStop ==
    /\ recording' = FALSE
    /\ recStarted' = FALSE
    /\ isProcessingRef' = FALSE
    /\ tracks' = StopTracks(tracks, streamRef)
    /\ streamRef' = 0
    /\ transcript' = finalRef
    /\ bgTasks' = MarkStale(bgTasks)
    /\ UNCHANGED <<patientName, speechCountRef, finalRef, lastSpeakerRef,
                   lastTranscriptRef, startCalls>>

RecStopClick ==
    /\ mounted /\ recording
    /\ RecorderStop
    /\ UNCHANGED <<mounted, language, vccVars>>
    /\ UNCHANGED <<diagVars, dropped>>
    /\ UNCHANGED voiceVars

\* reset()
RecorderReset ==
    /\ recording' = FALSE
    /\ recStarted' = FALSE
    /\ tracks' = StopTracks(tracks, streamRef)
    /\ streamRef' = 0
    /\ isProcessingRef' = FALSE
    /\ lastSpeakerRef' = "auto"
    /\ lastTranscriptRef' = << >>
    /\ finalRef' = << >>
    /\ speechCountRef' = 0
    /\ transcript' = << >>
    /\ patientName' = << >>
    /\ bgTasks' = MarkStale(bgTasks)
    /\ UNCHANGED startCalls

\* the patient-name input (disabled while recording); the recognition effect
\* depends on patientName: its cleanup stops the old instance, a new one is installed
SetPatientName ==
    /\ mounted /\ ~recording
    /\ \E n \in Names : n # patientName /\ patientName' = n
    /\ recStarted' = FALSE
    /\ UNCHANGED <<appVars, vccVars, recording, speechCountRef, finalRef, streamRef,
                   isProcessingRef, lastSpeakerRef, lastTranscriptRef,
                   startCalls, bgTasks>>
    /\ UNCHANGED <<diagVars, dropped>>
    /\ UNCHANGED voiceVars

\* ======================================================= VideoCallCapture
\* cleanup()
vcCleanup(tr) ==
    /\ tracks' = StopTracks(tr, vcStreamRef)
    /\ vcStreamRef' = 0
    /\ vcRecognitionRef' = "null"

\* startCapture(): up to the await of getDisplayMedia
VcStartClick ==
    /\ mounted /\ status = "idle"
    /\ RecorderUnused
    /\ Len(vcCalls) < MaxPending
    /\ status' = "selecting"
    /\ vcCalls' = Append(vcCalls, [pc |-> "media", stream |-> 0])
    /\ UNCHANGED <<appVars, recVars, vcSpeechCountRef, finalTranscriptRef,
                   vcLastTranscriptRef, vcStreamRef, vcRecognitionRef>>
    /\ UNCHANGED <<diagVars, dropped>>
    /\ UNCHANGED voiceVars

\* startCapture(): getDisplayMedia rejected, or the stream has no audio track
\* (its tracks are stopped at once)
VcStartFailed ==
    /\ \E i \in 1..Len(vcCalls) :
          /\ vcCalls[i].pc = "media"
          /\ vcCalls' = RemoveAt(vcCalls, i)
    /\ status' = "idle"
    /\ UNCHANGED <<appVars, recVars, vcSpeechCountRef, finalTranscriptRef,
                   vcLastTranscriptRef, vcStreamRef, vcRecognitionRef>>
    /\ UNCHANGED <<diagVars, dropped>>
    /\ UNCHANGED voiceVars

\* startCapture(): a stream with audio arrived; runs up to the 100 ms pause
VcStartAcquired ==
    /\ Len(tracks) < MaxStreams
    /\ \E i \in 1..Len(vcCalls) :
          /\ vcCalls[i].pc = "media"
          /\ LET s == Len(tracks) + 1
                 t == Append(tracks, [owner |-> "vcc", live |-> TRUE])
             IN  /\ vcStreamRef' = s
                 /\ finalTranscriptRef' = << >>
                 /\ vcLastTranscriptRef' = << >>
                 /\ vcSpeechCountRef' = 0
                 /\ IF vcRecognitionRef = "null"
                    THEN /\ tracks' = StopTracks(t, s)
                         /\ status' = "idle"
                         /\ vcCalls' = RemoveAt(vcCalls, i)
                         /\ UNCHANGED vcRecognitionRef
                    ELSE /\ tracks' = t
                         /\ vcRecognitionRef' = "idle"     \* recognitionRef.current.stop()
                         /\ vcCalls' = [vcCalls EXCEPT ![i] = [pc |-> "pause", stream |-> s]]
                         /\ UNCHANGED status
    /\ UNCHANGED <<mounted, language, transcript, recVars>>
    /\ UNCHANGED <<diagVars, dropped>>
    /\ UNCHANGED voiceVars

\* startCapture(): after the pause, recognitionRef.current.start()
VcStartResume ==
    /\ \E i \in 1..Len(vcCalls) :
          /\ vcCalls[i].pc = "pause"
          /\ vcCalls' = RemoveAt(vcCalls, i)
          /\ IF vcRecognitionRef = "idle"
             THEN /\ vcRecognitionRef' = "started"
                  /\ status' = "recording"
                  /\ UNCHANGED tracks
             ELSE \* null (TypeError) or already started (InvalidStateError): inner catch
                  /\ tracks' = StopTracks(tracks, vcCalls[i].stream)
                  /\ status' = "idle"
                  /\ UNCHANGED vcRecognitionRef
    /\ UNCHANGED <<mounted, language, transcript, recVars, vcSpeechCountRef,
                   finalTranscriptRef, vcLastTranscriptRef, vcStreamRef>>
    /\ UNCHANGED <<diagVars, dropped>>
    /\ UNCHANGED voiceVars

\* rec.onresult of VideoCallCapture
VcOnResultBody(ev) ==
    LET finalTranscript   == FinalText(ev)
        interimTranscript == InterimText(ev)
        trimmedText       == Trim(finalTranscript)
        speakerType       == AlternationLabel(vcSpeechCountRef)
        formattedText     == vcGetSpeakerPrefix(speakerType, currentPatientName, language)
                             \o trimmedText \o <<"\n">>
    IN  IF finalTranscript # << >>
        THEN IF IsDuplicate(trimmedText, vcLastTranscriptRef)
             THEN /\ dropped' = "vcc"
                  /\ UNCHANGED <<transcript, vcSpeechCountRef, finalTranscriptRef,
                                 vcLastTranscriptRef>>
             ELSE /\ dropped' = "none"
                  /\ vcLastTranscriptRef' = trimmedText
                  /\ vcSpeechCountRef' = vcSpeechCountRef + 1
                  /\ finalTranscriptRef' = finalTranscriptRef \o formattedText
                  /\ transcript' = finalTranscriptRef' \o interimTranscript
        ELSE /\ dropped' = "none"
             /\ IF interimTranscript # << >>
                THEN transcript' = finalTranscriptRef \o interimTranscript
                ELSE UNCHANGED transcript
             /\ UNCHANGED <<vcSpeechCountRef, finalTranscriptRef, vcLastTranscriptRef>>

VcOnResult ==
    /\ vcRecognitionRef = "started"
    /\ vcSpeechCountRef < MaxUtter
    /\ \E ev \in Events : VcOnResultBody(ev)
    /\ UNCHANGED <<mounted, language, tracks, recVars, status, vcStreamRef,
                   vcRecognitionRef, vcCalls>>
    /\ UNCHANGED diagVars
    /\ UNCHANGED voiceVars

\* rec.onerror of VideoCallCapture: the handler only logs; the recognition
\* service ends the session after an error event
VcOnError ==
    /\ vcRecognitionRef = "started"
    /\ vcRecognitionRef' = "idle"
    /\ UNCHANGED <<appVars, recVars, status, vcSpeechCountRef, finalTranscriptRef,
                   vcLastTranscriptRef, vcStreamRef, vcCalls>>
    /\ UNCHANGED <<diagVars, dropped>>
    /\ UNCHANGED voiceVars

\* stopCapture()
VcStopClick ==
    /\ mounted /\ status = "recording"
    /\ vcCleanup(tracks)
    /\ status' = "done"
    /\ IF finalTranscriptRef # << >>
       THEN transcript' = finalTranscriptRef
       ELSE UNCHANGED transcript
    /\ UNCHANGED <<mounted, language, recVars, vcSpeechCountRef, finalTranscriptRef,
                   vcLastTranscriptRef, vcCalls>>
    /\ UNCHANGED <<diagVars, dropped>>
    /\ UNCHANGED voiceVars

\* reset() of VideoCallCapture, on the track list tr
VideoCallReset(tr) ==
    /\ vcCleanup(tr)
    /\ status' = "idle"
    /\ vcSpeechCountRef' = 0
    /\ finalTranscriptRef' = << >>
    /\ vcLastTranscriptRef' = << >>
    /\ UNCHANGED vcCalls

\* ================================================= history store (lib/history.ts)
\* JSON.stringify of a string: a line feed becomes the escape \n
JsonEscape(str) == [i \in 1..Len(str) |-> IF str[i] = "\n" THEN "\\n" ELSE str[i]]
JsonUnescape(str) == [i \in 1..Len(str) |-> IF str[i] = "\\n" THEN "\n" ELSE str[i]]

\* JSON.stringify / JSON.parse of the HistoryItem array: one tuple per item
StringifyItems(arr) ==
    [i \in 1..Len(arr) |->
        <<arr[i].id, arr[i].language, JsonEscape(arr[i].transcript), arr[i].result>>]
ParseItems(text) ==
    [i \in 1..Len(text) |->
        [id |-> text[i][1], language |-> text[i][2],
         transcript |-> JsonUnescape(text[i][3]), result |-> text[i][4]]]

loadHistory(st) == IF st.present THEN ParseItems(st.text) ELSE << >>

\* push instead of unshift
saveHistoryItemPush(st, item) ==
    [present |-> TRUE, text |-> StringifyItems(loadHistory(st) \o <<item>>)]

saveHistoryItem(st, item) ==
    [present |-> TRUE, text |-> StringifyItems(<<item>> \o loadHistory(st))]

clearHistory(st) == [present |-> FALSE, text |-> << >>]

\* the "Clear" button of HistoryDrawer; the history-updated event refreshes items
ClearHistoryClick ==
    /\ mounted
    /\ storage.present
    /\ storage' = clearHistory(storage)
    /\ items' = loadHistory(storage')
    /\ UNCHANGED <<appVars, recVars, vccVars, loading, result, fins>>
    /\ UNCHANGED dropped
    /\ UNCHANGED voiceVars

\* =========================================================== DiagnoseView
\* encodeURIComponent, token by token
EncodeToken(t) ==
    CASE t = " "  -> "%20"
      [] t = "\n" -> "%0A"
      [] t = ":"  -> "%3A"
      [] OTHER    -> t
DecodeToken(t) ==
    CASE t = "%20" -> " "
      [] t = "%0A" -> "\n"
      [] t = "%3A" -> ":"
      [] OTHER     -> t
encodeURIComponent(str) == [i \in 1..Len(str) |-> EncodeToken(str[i])]
decodeURIComponent(str) == [i \in 1..Len(str) |-> DecodeToken(str[i])]

\* what the server pushes: pieces of a JSON document { v }
Chunks == {<<"{", "dxA">>, <<"}">>, <<"{", "dxB", "}">>}

\* JSON.parse(accumulatedData) succeeds
Parseable(data) ==
    /\ Len(data) = 3
    /\ data[1] = "{" /\ data[2] \in DiagVals /\ data[3] = "}"
JsonParse(data) == data[2]

\* crypto.randomUUID(): an id no stored or earlier item carries
RECURSIVE SavedCount(_)
SavedCount(fs) ==
    IF fs = << >> THEN 0 ELSE Len(Head(fs).saved) + SavedCount(Tail(fs))
NextId == SavedCount(fins) + 1

\* the value of reset() in the imperative handle
DiagnoseReset ==
    /\ loading' = FALSE
    /\ result' = "null"

\* the item is stored twice
saveAndResetTwice(f, json, fs) ==
    LET item == [id |-> NextId, language |-> fs[f].language,
                 transcript |-> fs[f].transcript, result |-> json]
    IN  /\ result' = json
        /\ storage' = saveHistoryItem(saveHistoryItem(storage, item), item)
        /\ items' = loadHistory(storage')
        /\ RecorderReset
        /\ loading' = FALSE
        /\ fins' = [fs EXCEPT ![f].produced = Append(@, json),
                              ![f].saved = Append(Append(@, item), item)]

\* saveAndReset(json) of the finalize action f; fs is fins as the caller leaves it
saveAndReset(f, json, fs) ==
    LET item == [id |-> NextId, language |-> fs[f].language,
                 transcript |-> fs[f].transcript, result |-> json]
    IN  /\ result' = json
        /\ storage' = saveHistoryItem(storage, item)
        /\ items' = loadHistory(storage')
        /\ RecorderReset              \* onFinalizeComplete: recRef.reset(), setTranscript("")
        /\ loading' = FALSE
        /\ fins' = [fs EXCEPT ![f].produced = Append(@, json),
                              ![f].saved = Append(@, item)]

\* the body is built from the transcript state of the latest render
PostBodyStale(fin) == [transcript |-> JsonEscape(transcript), language |-> fin.language]

\* diagnose(transcript, language): the POST that doFallbackRequest sends
PostBody(fin) == [transcript |-> JsonEscape(fin.transcript), language |-> fin.language]

\* the request is sent twice
doFallbackRequestTwice(fin) ==
    [fin EXCEPT !.phase = "fallback", !.posts = Append(Append(@, PostBody(fin)), PostBody(fin))]

doFallbackRequest(fin) ==
    [fin EXCEPT !.phase = "fallback", !.posts = Append(@, PostBody(fin))]

\* streamDiagnose(transcript, language, onChunk): the EventSource URL
StreamUrl(t, l) == [language |-> l, q |-> encodeURIComponent(t)]

\* the timer is armed before streamDiagnose is called
FinalizeTimerFirst ==
    /\ mounted
    /\ ~loading /\ Trim(transcript) # << >>
    /\ Len(fins) < MaxFinalize
    /\ RecorderStop                   \* onBeforeFinalize: recRef.stop()
    /\ loading' = TRUE
    /\ result' = "null"
    /\ LET fin == [phase |-> "streaming", transcript |-> transcript,
                   language |-> language, accumulatedData |-> << >>,
                   received |-> 0, esOpen |-> FALSE, timeouts |-> 0,
                   parsedAtTimeout |-> FALSE, resetSeen |-> FALSE,
                   urls |-> << >>, posts |-> << >>, responses |-> << >>,
                   produced |-> << >>, saved |-> << >>]
       IN  \/ \* the stream is open, the 8 s timer is armed
              fins' = Append(fins, [fin EXCEPT
                          !.esOpen = TRUE,
                          !.urls = <<StreamUrl(transcript, language)>>])
           \/ \* streamDiagnose throws: the armed timer is left to run
              fins' = Append(fins, fin)
    /\ UNCHANGED <<mounted, language, vccVars, storage, items>>
    /\ UNCHANGED dropped
    /\ UNCHANGED voiceVars

\* onFinalize (the button is disabled while loading or with a blank transcript)
Finalize ==
    /\ mounted
    /\ ~loading /\ Trim(transcript) # << >>
    /\ Len(fins) < MaxFinalize
    /\ RecorderStop                   \* onBeforeFinalize: recRef.stop()
    /\ loading' = TRUE
    /\ result' = "null"
    /\ LET fin == [phase |-> "streaming", transcript |-> transcript,
                   language |-> language, accumulatedData |-> << >>,
                   received |-> 0, esOpen |-> FALSE, timeouts |-> 0,
                   parsedAtTimeout |-> FALSE, resetSeen |-> FALSE,
                   urls |-> << >>, posts |-> << >>, responses |-> << >>,
                   produced |-> << >>, saved |-> << >>]
       IN  \/ \* the stream is open, the 8 s timer is armed
              fins' = Append(fins, [fin EXCEPT
                          !.esOpen = TRUE,
                          !.urls = <<StreamUrl(transcript, language)>>])
           \/ \* streamDiagnose throws: the catch goes to the fallback
              fins' = Append(fins, doFallbackRequest(fin))
    /\ UNCHANGED <<mounted, language, vccVars, storage, items>>
    /\ UNCHANGED dropped
    /\ UNCHANGED voiceVars

\* es.onmessage -> onChunk
StreamChunk ==
    /\ \E f \in 1..Len(fins), c \in Chunks :
          /\ fins[f].esOpen
          /\ fins[f].received < MaxChunks
          /\ fins' = [fins EXCEPT ![f].accumulatedData = @ \o c,
                                  ![f].received = @ + 1]
    /\ UNCHANGED <<appVars, recVars, vccVars, loading, result, storage, items>>
    /\ UNCHANGED dropped
    /\ UNCHANGED voiceVars

\* es.onerror -> es.close()
StreamError ==
    /\ \E f \in 1..Len(fins) :
          /\ fins[f].esOpen
          /\ fins' = [fins EXCEPT ![f].esOpen = FALSE]
    /\ UNCHANGED <<appVars, recVars, vccVars, loading, result, storage, items>>
    /\ UNCHANGED dropped
    /\ UNCHANGED voiceVars

\* the accumulated stream data is never used
StreamDataNeverUsed(data) == FALSE

\* "if (accumulatedData) { try { JSON.parse(accumulatedData) ..." succeeds
StreamDataUsable(data) == data # << >> /\ Parseable(data)

\* the callback does not call stop(): the EventSource stays as it was
TimeoutKeepsStream ==
    /\ mounted
    /\ \E f \in 1..Len(fins) :
          /\ fins[f].phase = "streaming"
          /\ LET data   == fins[f].accumulatedData
                 ok     == StreamDataUsable(data)
                 closed == [fins EXCEPT ![f].timeouts = @ + 1,
                                        ![f].parsedAtTimeout = ok]
             IN  IF ok
                 THEN /\ saveAndReset(f, JsonParse(data),
                                      [closed EXCEPT ![f].phase = "resolved"])
                      /\ UNCHANGED <<mounted, language, vccVars>>
                 ELSE /\ fins' = [closed EXCEPT ![f] = doFallbackRequest(@)]
                      /\ UNCHANGED <<appVars, recVars, vccVars, loading, result,
                                     storage, items>>
    /\ UNCHANGED dropped
    /\ UNCHANGED voiceVars

\* the setTimeout callback of onFinalize (timers are followed while the tree is mounted)
Timeout ==
    /\ mounted
    /\ \E f \in 1..Len(fins) :
          /\ fins[f].phase = "streaming"
          /\ LET data   == fins[f].accumulatedData
                 ok     == StreamDataUsable(data)
                 \* stop(); the buffer of the closure is not read after this callback
                 closed == [fins EXCEPT ![f].esOpen = FALSE,
                                        ![f].timeouts = @ + 1,
                                        ![f].parsedAtTimeout = ok,
                                        ![f].accumulatedData = << >>,
                                        ![f].received = 0]
             IN  IF ok
                 THEN /\ saveAndReset(f, JsonParse(data),
                                      [closed EXCEPT ![f].phase = "resolved"])
                      /\ UNCHANGED <<mounted, language, vccVars>>
                 ELSE /\ fins' = [closed EXCEPT ![f] = doFallbackRequest(@)]
                      /\ UNCHANGED <<appVars, recVars, vccVars, loading, result,
                                     storage, items>>
    /\ UNCHANGED dropped
    /\ UNCHANGED voiceVars

\* the POST of doFallbackRequest answers: saveAndReset(json)
FallbackResponse ==
    /\ mounted
    /\ \E f \in 1..Len(fins), r \in DiagVals :
          /\ fins[f].phase = "fallback"
          /\ saveAndReset(f, r, [fins EXCEPT ![f].phase = "resolved",
                                              ![f].responses = Append(@, r)])
    /\ UNCHANGED <<mounted, language, vccVars>>
    /\ UNCHANGED dropped
    /\ UNCHANGED voiceVars

\* the failure is answered with a default diagnosis that is saved
FallbackFailSaves ==
    /\ mounted
    /\ \E f \in 1..Len(fins) :
          /\ fins[f].phase = "fallback"
          /\ saveAndReset(f, "dxA", [fins EXCEPT ![f].phase = "failed"])
    /\ UNCHANGED <<mounted, language, vccVars>>
    /\ UNCHANGED dropped
    /\ UNCHANGED voiceVars

\* the POST fails (network error or !res.ok): diagnose throws, nothing catches it
FallbackFail ==
    /\ \E f \in 1..Len(fins) :
          /\ fins[f].phase = "fallback"
          /\ fins' = [fins EXCEPT ![f].phase = "failed"]
    /\ UNCHANGED <<appVars, recVars, vccVars, loading, result, storage, items>>
    /\ UNCHANGED dropped
    /\ UNCHANGED voiceVars

\* ==================================================================== App
\* the language select: both recognition effects depend on language; each
\* cleanup stops the old instance and the effect installs a fresh idle one
SetLanguage ==
    /\ mounted
    /\ \E l \in Languages : l # language /\ language' = l
    /\ recStarted' = FALSE
    /\ vcRecognitionRef' = "idle"
    /\ UNCHANGED <<mounted, transcript, tracks, recording, patientName,
                   speechCountRef, finalRef, streamRef, isProcessingRef,
                   lastSpeakerRef, lastTranscriptRef, startCalls, bgTasks,
                   status, vcSpeechCountRef, finalTranscriptRef,
                   vcLastTranscriptRef, vcStreamRef, vcCalls>>
    /\ UNCHANGED <<diagVars, dropped>>
    /\ UNCHANGED voiceVars

\* TranscriptView.onChange
EditTranscript ==
    /\ mounted
    /\ \E v \in UserTexts : v # transcript /\ transcript' = v
    /\ UNCHANGED <<mounted, language, tracks, recVars, vccVars>>
    /\ UNCHANGED <<diagVars, dropped>>
    /\ UNCHANGED voiceVars

\* history: reset() ran while the diagnosis of a finalize action was streaming
SeenReset(fs) ==
    [f \in 1..Len(fs) |->
        IF fs[f].phase = "streaming" THEN [fs[f] EXCEPT !.resetSeen = TRUE] ELSE fs[f]]

\* handleNewConsultation
NewConsultation ==
    /\ mounted
    /\ RecorderReset
    /\ DiagnoseReset
    /\ VideoCallReset(tracks')
    /\ fins' = SeenReset(fins)     \* reset() cancels no timer and no request
    /\ UNCHANGED <<mounted, language, storage, items>>
    /\ UNCHANGED dropped
    /\ UNCHANGED voiceVars

\* the tree is unmounted: Recorder's effect cleanup (rec.stop()), then
\* VideoCallCapture's effect cleanups (rec.stop(), cleanup())
Unmount ==
    /\ mounted
    /\ mounted' = FALSE
    /\ recStarted' = FALSE
    /\ vcCleanup(tracks)
    /\ UNCHANGED <<language, transcript, recording, patientName, speechCountRef,
                   finalRef, streamRef, isProcessingRef, lastSpeakerRef,
                   lastTranscriptRef, startCalls, bgTasks, status,
                   vcSpeechCountRef, finalTranscriptRef, vcLastTranscriptRef, vcCalls>>
    /\ UNCHANGED <<diagVars, dropped>>
    /\ UNCHANGED voiceVars

\* ------------------------------------------------ the calls of useVoiceAI
\* learnVoice(audioBlob, speakerType); a decode failure is caught and logged
LearnVoiceCall ==
    /\ mounted
    /\ TotalSamples(voiceProfiles) < MaxLearn
    /\ \E speakerType \in SpeakerLabels, audio \in AudioInputs :
          /\ voiceProfiles' =
                 IF ~audio.decodable THEN voiceProfiles
                 ELSE learnVoice(voiceProfiles, speakerType, extractVoiceFeatures(audio))
          /\ voiceCall' = [op |-> "learn", speakerType |-> speakerType, audio |-> audio,
                           stale |-> FALSE]
    /\ UNCHANGED <<appVars, recVars, vccVars, diagVars, lastAnalysisRef, dropped>>

\* identifySpeaker(audioBlob); the catch returns without writing lastAnalysisRef
IdentifySpeakerCall ==
    /\ mounted
    /\ \E audio \in AudioInputs :
          LET analysis == identifySpeaker(voiceProfiles, audio)
          IN  /\ voiceCall' = [op |-> "identify", audio |-> audio, analysis |-> analysis]
              /\ lastAnalysisRef' = IF ~audio.decodable THEN lastAnalysisRef
                                    ELSE <<analysis>>
    /\ UNCHANGED <<appVars, recVars, vccVars, diagVars, voiceProfiles, dropped>>

\* resetVoiceProfiles()
ResetVoiceProfilesCall ==
    /\ mounted
    /\ voiceProfiles' = << >>
    /\ lastAnalysisRef' = << >>
    /\ voiceCall' = [op |-> "reset"]
    /\ UNCHANGED <<appVars, recVars, vccVars, diagVars, dropped>>

Next ==
    \/ RecStartClick \/ RecStartDenied \/ RecStartAcquired
    \/ RecOnResult \/ RecOnError \/ RecTaskDone \/ RecStopClick \/ SetPatientName
    \/ VcStartClick \/ VcStartFailed \/ VcStartAcquired \/ VcStartResume
    \/ VcOnResult \/ VcOnError \/ VcStopClick
    \/ SetLanguage \/ NewConsultation \/ Unmount

Spec == Init /\ [][Next]_vars

\* The consultation typed into the transcript view and finalized.
NextDiagnose ==
    \/ EditTranscript \/ NewConsultation
    \/ Finalize \/ StreamChunk \/ StreamError \/ Timeout
    \/ FallbackResponse \/ FallbackFail
    \/ ClearHistoryClick

SpecDiagnose == Init /\ [][NextDiagnose]_vars

\* The hook on its own: learn, identify and reset calls on the profile store.
NextVoice == LearnVoiceCall \/ IdentifySpeakerCall \/ ResetVoiceProfilesCall

SpecVoice == Init /\ [][NextVoice]_vars

\* ================================================================= claims
\* the lines of a finalized buffer, without their line feeds
RECURSIVE SplitLines(_)
SplitLines(str) ==
    IF str = << >> THEN << >>
    ELSE LET n == CHOOSE i \in 1..Len(str) :
                      /\ (str[i] = "\n" \/ i = Len(str))
                      /\ \A j \in 1..(i - 1) : str[j] # "\n"
         IN  <<SubSeq(str, 1, IF str[n] = "\n" THEN n - 1 ELSE n)>>
             \o SplitLines(SubSeq(str, n + 1, Len(str)))

IsDoctorLine(line) == line # << >> /\ Head(line) \in {"Medico", "Doctor"}

\* the text of a line: what follows the first ": "
TextOfLine(line) ==
    LET c == CHOOSE i \in 1..Len(line) :
                 line[i] = ":" /\ \A j \in 1..(i - 1) : line[j] # ":"
    IN  SubSeq(line, c + 2, Len(line))

Alternates(buffer) ==
    LET ls == SplitLines(buffer)
    IN  \A k \in 1..Len(ls) : IsDoctorLine(ls[k]) <=> ((k - 1) % 2 = 0)

NoRepeatedLine(buffer) ==
    LET ls == SplitLines(buffer)
    IN  \A k \in 1..(Len(ls) - 1) : TextOfLine(ls[k]) # TextOfLine(ls[k + 1])

LastLineText(buffer) ==
    LET ls == SplitLines(buffer) IN TextOfLine(ls[Len(ls)])

\* C1: a finalize action never produces two results nor persists two items; once
\* one of the three paths (parsed stream buffer, fallback after the timeout,
\* fallback after a failed stream setup) has resolved it, it has produced exactly
\* one result and persisted exactly one item, and it has none before that.
C1_ExactlyOneWhenResolved ==
    \A f \in 1..Len(fins) :
        /\ Len(fins[f].produced) <= 1 /\ Len(fins[f].saved) <= 1
        /\ fins[f].phase = "resolved" =>
              Len(fins[f].produced) = 1 /\ Len(fins[f].saved) = 1
        /\ fins[f].phase # "resolved" =>
              fins[f].produced = << >> /\ fins[f].saved = << >>

\* C1 witness: two finalize actions, one resolved by the parsed stream buffer and
\* one by a fallback, each with one result and one item.
C1_Witness ==
    \E f, g \in 1..Len(fins) :
        /\ fins[f].phase = "resolved" /\ fins[f].parsedAtTimeout
        /\ fins[g].phase = "resolved" /\ fins[g].posts # << >>
        /\ Len(fins[f].saved) = 1 /\ Len(fins[g].saved) = 1

\* C2: when the timeout fired on an empty or unparseable buffer, exactly one
\* fallback request was issued for that finalize action, and the result produced
\* and the item persisted carry that request's response.
C2_FallbackAfterTimeout ==
    \A f \in 1..Len(fins) :
        (fins[f].timeouts > 0 /\ ~fins[f].parsedAtTimeout) =>
            /\ Len(fins[f].posts) = 1
            /\ Len(fins[f].responses) <= 1
            /\ fins[f].produced = fins[f].responses
            /\ Len(fins[f].saved) = Len(fins[f].responses)
            /\ \A i \in 1..Len(fins[f].saved) :
                   fins[f].saved[i].result = fins[f].responses[i]

\* C2 witness: a stream that delivered unparseable data, timed out, and was
\* resolved by the response of the fallback request.
C2_Witness ==
    \E f \in 1..Len(fins) :
        /\ fins[f].timeouts = 1 /\ ~fins[f].parsedAtTimeout
        /\ fins[f].phase = "resolved"
        /\ fins[f].responses = <<"dxB">> /\ result = "dxB"

PayloadOf(data) == CHOOSE v \in DiagVals : data = <<"{", v, "}">>

\* C3: when the buffer is parseable as the timeout fires, the finalize action is
\* resolved in that callback with the parsed payload as the one result and the one
\* persisted item, and no fallback request is ever issued for it.
C3_StreamPayloadWins ==
    /\ [](\A f \in 1..Len(fins) :
             fins[f].parsedAtTimeout =>
                 /\ fins[f].posts = << >>
                 /\ fins[f].phase = "resolved"
                 /\ Len(fins[f].saved) = 1 /\ Len(fins[f].produced) = 1)
    /\ [][\A f \in 1..Len(fins) :
             (/\ fins[f].timeouts = 0 /\ fins'[f].timeouts = 1
              /\ fins[f].accumulatedData # << >>
              /\ Parseable(fins[f].accumulatedData)) =>
                 /\ fins'[f].produced = <<PayloadOf(fins[f].accumulatedData)>>
                 /\ Len(fins'[f].saved) = 1
                 /\ fins'[f].saved[1].result = PayloadOf(fins[f].accumulatedData)
                 /\ result' = PayloadOf(fins[f].accumulatedData)
                 /\ loadHistory(storage')[1].result = PayloadOf(fins[f].accumulatedData)]_vars

\* C3 witness: a payload that arrived in two chunks was parsed at the timeout.
C3_Witness ==
    \E f \in 1..Len(fins) :
        /\ fins[f].parsedAtTimeout
        /\ fins[f].produced = <<"dxA">>
        /\ fins[f].posts = << >>

\* C4: in each finalized buffer the k-th line (0-based) carries the doctor label
\* when k is even and the patient label when k is odd.
C4_Alternation == Alternates(finalRef) /\ Alternates(finalTranscriptRef)

\* C5: a final result whose trimmed text equals the last committed text appends
\* nothing and does not advance the counter: no buffer holds the same text on two
\* consecutive lines, the guard is the text of the last line, a discarded callback
\* leaves the buffer, the counter and the guard as they were, and the counter
\* advances only together with an appended line.
C5_DuplicateSuppression ==
    /\ [](/\ NoRepeatedLine(finalRef) /\ NoRepeatedLine(finalTranscriptRef)
          /\ finalRef # << >> => lastTranscriptRef = LastLineText(finalRef)
          /\ finalTranscriptRef # << >> =>
                 vcLastTranscriptRef = LastLineText(finalTranscriptRef))
    /\ [][/\ (dropped' = "rec" /\ dropped # "rec") =>
                 /\ finalRef' = finalRef /\ speechCountRef' = speechCountRef
                 /\ lastTranscriptRef' = lastTranscriptRef
          /\ (dropped' = "vcc" /\ dropped # "vcc") =>
                 /\ finalTranscriptRef' = finalTranscriptRef
                 /\ vcSpeechCountRef' = vcSpeechCountRef
                 /\ vcLastTranscriptRef' = vcLastTranscriptRef
          /\ (speechCountRef' # speechCountRef /\ speechCountRef' # 0) =>
                 /\ speechCountRef' = speechCountRef + 1
                 /\ LineCount(finalRef') = LineCount(finalRef) + 1
          /\ (vcSpeechCountRef' # vcSpeechCountRef /\ vcSpeechCountRef' # 0) =>
                 /\ vcSpeechCountRef' = vcSpeechCountRef + 1
                 /\ LineCount(finalTranscriptRef') = LineCount(finalTranscriptRef) + 1]_vars

\* C5 witness: the Recorder has committed one line and has just discarded a
\* callback that repeated it; counter and buffer stand at one.
C5_Dropped ==
    /\ dropped = "rec" /\ recStarted /\ LineCount(finalRef) = 1 /\ speechCountRef = 1

\* C6: the transcript in the fallback POST body, the transcript of the stream
\* request and the transcript of the persisted item are the same string, the one
\* the finalize action started with.
C6_SameTranscript ==
    \A f \in 1..Len(fins) :
        /\ \A i \in 1..Len(fins[f].posts) :
               /\ JsonUnescape(fins[f].posts[i].transcript) = fins[f].transcript
               /\ \A j \in 1..Len(fins[f].urls) :
                      decodeURIComponent(fins[f].urls[j].q)
                          = JsonUnescape(fins[f].posts[i].transcript)
               /\ \A j \in 1..Len(fins[f].saved) :
                      fins[f].saved[j].transcript
                          = JsonUnescape(fins[f].posts[i].transcript)
        /\ \A i \in 1..Len(fins[f].urls), j \in 1..Len(fins[f].saved) :
               decodeURIComponent(fins[f].urls[i].q) = fins[f].saved[j].transcript

\* C6 witness: a stream was opened, the fallback was posted and its response
\* persisted, for a transcript with a line feed, after the shared transcript changed.
C6_Witness ==
    \E f \in 1..Len(fins) :
        /\ fins[f].urls # << >> /\ fins[f].posts # << >> /\ fins[f].saved # << >>
        /\ fins[f].transcript = <<"Dr", ":", " ", "y", "\n">>
        /\ transcript # fins[f].transcript

NewlySaved(f) == Len(fins'[f].saved) = Len(fins[f].saved) + 1

\* C7: after clearHistory() loadHistory() is empty; after saveHistoryItem(item)
\* loadHistory() is item followed by the list as it was, one element longer.
C7_HistoryRoundTrip ==
    [][/\ (storage.present /\ ~storage'.present) => loadHistory(storage') = << >>
       /\ \A f \in 1..Len(fins') :
              (f <= Len(fins) /\ NewlySaved(f)) =>
                  /\ loadHistory(storage')
                        = <<fins'[f].saved[Len(fins'[f].saved)]>> \o loadHistory(storage)
                  /\ Len(loadHistory(storage')) = Len(loadHistory(storage)) + 1
                  /\ items' = loadHistory(storage')]_vars

\* C7 witness: two items stored, the later one first
C7_Witness ==
    /\ Len(loadHistory(storage)) = 2
    /\ loadHistory(storage)[1].id = 2 /\ loadHistory(storage)[2].id = 1
    /\ loadHistory(storage)[2].transcript = <<"Dr", ":", " ", "y", "\n">>

\* C8: a running session that has committed nothing yet has counter 0 and an
\* empty duplicate guard.
C8_StartResetsSession ==
    /\ (recording /\ recStarted /\ finalRef = << >>) =>
           speechCountRef = 0 /\ lastTranscriptRef = << >>
    /\ (status = "recording" /\ finalTranscriptRef = << >>) =>
           vcSpeechCountRef = 0 /\ vcLastTranscriptRef = << >>

\* C9: stop() leaves the published transcript equal to the finalized buffer.
C9_StopPublishesFinal ==
    [][/\ RecStopClick => transcript' = finalRef'
       /\ VcStopClick => transcript' = finalTranscriptRef']_vars

NoLiveTrack(owner) == \A i \in 1..Len(tracks) : tracks[i].owner = owner => ~tracks[i].live

\* C10: stop(), reset() and the teardown leave no audio track running and no
\* recognition instance listening.
C10_ExitReleases ==
    [][/\ RecStopClick => (NoLiveTrack("rec") /\ ~recStarted)'
       /\ VcStopClick => (NoLiveTrack("vcc") /\ vcRecognitionRef # "started")'
       /\ (NewConsultation \/ Unmount) =>
              (/\ NoLiveTrack("rec") /\ NoLiveTrack("vcc")
               /\ ~recStarted /\ vcRecognitionRef # "started")']_vars

\* the fields of a Recorder as a freshly created one has them
RecorderFresh ==
    /\ ~recording /\ ~recStarted /\ streamRef = 0 /\ ~isProcessingRef
    /\ lastSpeakerRef = "auto" /\ lastTranscriptRef = << >>
    /\ finalRef = << >> /\ speechCountRef = 0 /\ patientName = << >>

\* the fields of a VideoCallCapture as a freshly created one has them
VideoCallFresh ==
    /\ status = "idle" /\ vcStreamRef = 0 /\ vcRecognitionRef = "idle"
    /\ vcSpeechCountRef = 0 /\ finalTranscriptRef = << >>
    /\ vcLastTranscriptRef = << >>

\* C11: reset() leaves each recording component stopped, with counter, duplicate
\* guard, learning guard, finalized buffer and patient name cleared and an empty
\* transcript published: the session state of a freshly created component.
C11_ResetRestoresInitial ==
    [][NewConsultation =>
          (RecorderFresh /\ VideoCallFresh /\ transcript = << >>)']_vars

HasProfile(profiles, name) == \E i \in 1..Len(profiles) : profiles[i].name = name
ProfileOf(profiles, name) ==
    profiles[CHOOSE i \in 1..Len(profiles) : profiles[i].name = name]

\* a learn call that reached the store in this step
Learned == voiceCall'.op = "learn" /\ voiceProfiles' # voiceProfiles

\* C12: the first learn for a label creates its profile with samples = 1 and the
\* sample as features; a later learn sets every feature to 0.7*old + 0.3*sample and
\* adds exactly 1 to samples; the other label's profile is unchanged; no label ever
\* has two profiles.
C12_LearnUpdate ==
    /\ [](\A i, j \in 1..Len(voiceProfiles) :
             voiceProfiles[i].name = voiceProfiles[j].name => i = j)
    /\ [][Learned =>
            LET label  == voiceCall'.speakerType
                sample == extractVoiceFeatures(voiceCall'.audio)
                new    == ProfileOf(voiceProfiles', label)
            IN  /\ voiceCall'.audio.decodable
                /\ HasProfile(voiceProfiles', label)
                /\ IF HasProfile(voiceProfiles, label)
                   THEN LET old == ProfileOf(voiceProfiles, label)
                        IN  /\ new.samples = old.samples + 1
                            /\ \A f \in DOMAIN sample :
                                   10 * new.features[f]
                                       = 7 * old.features[f] + 3 * sample[f]
                   ELSE /\ new.samples = 1
                        /\ new.features = sample
                /\ \A other \in SpeakerLabels \ {label} :
                       /\ HasProfile(voiceProfiles', other) = HasProfile(voiceProfiles, other)
                       /\ HasProfile(voiceProfiles, other) =>
                              ProfileOf(voiceProfiles', other) = ProfileOf(voiceProfiles, other)]_vars

\* C12 witness: the doctor profile after a sample of pitch 100 and one of pitch 500:
\* two samples, average pitch 0.7 * 100 + 0.3 * 500 = 220.
C12_Witness ==
    /\ HasProfile(voiceProfiles, "doctor")
    /\ ProfileOf(voiceProfiles, "doctor").samples = 2
    /\ ProfileOf(voiceProfiles, "doctor").features.avgPitch = 220 * One
    /\ voiceCall.op = "learn"

\* an identifySpeaker call answered on the empty store (a change of the store
\* overwrites voiceCall, so the store is still the one the call saw)
ColdCall == voiceCall.op = "identify" /\ Len(voiceProfiles) = 0

\* C13 as stated: on the empty store identifySpeaker returns doctor with
\* confidence 0.7 for every input.
C13_ColdStartEveryInput ==
    ColdCall =>
        /\ voiceCall.analysis.speaker = "doctor"
        /\ voiceCall.analysis.confidence = 7 * (SimOne \div 10)

\* C13 amended: on the empty store identifySpeaker returns doctor with confidence
\* 0.7 (and the extracted features) for every input whose audio decodes; an input
\* that does not decode returns auto with confidence 0 and zero features.
C13_ColdStartDecoded ==
    ColdCall =>
        IF voiceCall.audio.decodable
        THEN /\ voiceCall.analysis.speaker = "doctor"
             /\ voiceCall.analysis.confidence = 7 * (SimOne \div 10)
             /\ voiceCall.analysis.features = extractVoiceFeatures(voiceCall.audio)
        ELSE /\ voiceCall.analysis.speaker = "auto"
             /\ voiceCall.analysis.confidence = 0
             /\ \A f \in DOMAIN voiceCall.analysis.features :
                    voiceCall.analysis.features[f] = 0

\* C13 witness: a decodable snippet classified on a store emptied by reset
C13_Witness ==
    /\ ColdCall /\ voiceCall.audio.decodable
    /\ voiceCall.analysis.speaker = "doctor"
    /\ lastAnalysisRef = <<voiceCall.analysis>>

\* an identifySpeaker call on a non-empty store whose snippet decodes
WarmCall ==
    /\ voiceCall.op = "identify"
    /\ Len(voiceProfiles) > 0
    /\ voiceCall.audio.decodable

\* the similarity of the classified snippet to the i-th stored profile
SimilarityTo(i) ==
    calculateSimilarity(extractVoiceFeatures(voiceCall.audio), voiceProfiles[i].features)

\* the maximum similarity over all stored profiles
MaxSimilarity ==
    LET sims == {SimilarityTo(i) : i \in 1..Len(voiceProfiles)}
    IN  CHOOSE s \in sims : \A t \in sims : t <= s

\* C14: with a non-empty store, a maximum similarity of at most 0.4 yields the
\* label auto, a profile's label is returned only when its similarity is the
\* maximum and strictly greater than 0.4, and the returned confidence is that
\* maximum in both cases.
C14_Threshold ==
    WarmCall =>
        /\ voiceCall.analysis.confidence = MaxSimilarity
        /\ (MaxSimilarity <= 4 * (SimOne \div 10) => voiceCall.analysis.speaker = "auto")
        /\ (voiceCall.analysis.speaker # "auto" =>
               /\ MaxSimilarity > 4 * (SimOne \div 10)
               /\ \E i \in 1..Len(voiceProfiles) :
                     /\ voiceProfiles[i].name = voiceCall.analysis.speaker
                     /\ SimilarityTo(i) = MaxSimilarity)

\* C14 witness: the best profile matches with similarity exactly 0.4 and the
\* snippet is labelled auto
C14_Witness ==
    /\ WarmCall
    /\ MaxSimilarity = 4 * (SimOne \div 10)
    /\ voiceCall.analysis.speaker = "auto"
    /\ voiceCall.analysis.confidence = MaxSimilarity

\* a snippet labelled with a stored profile, two profiles in the store
C14_LabelReturned ==
    /\ WarmCall
    /\ Len(voiceProfiles) = 2
    /\ voiceCall.analysis.speaker \in SpeakerLabels
    /\ SimilarityTo(1) # SimilarityTo(2)

\* the finalize actions that opened a stream
Streamed == {f \in 1..Len(fins) : fins[f].urls # << >>}

\* C15: for each finalize action that opened a stream the timeout fires at most
\* once, no path leaves the streaming phase without it having fired, and once it
\* has fired the stream connection is closed, whichever path resolves the
\* diagnosis afterwards.
C15_TimeoutOnceStreamClosed ==
    \A f \in Streamed :
        /\ fins[f].timeouts <= 1
        /\ (fins[f].phase # "streaming" => fins[f].timeouts = 1)
        /\ (fins[f].timeouts >= 1 => ~fins[f].esOpen /\ fins[f].phase # "streaming")

\* C15 witness: two streamed finalize actions whose timeouts fired while the
\* stream was still delivering, one resolved from the buffer and one by the
\* fallback response
C15_Witness ==
    \E f, g \in Streamed :
        /\ fins[f].timeouts = 1 /\ fins[f].parsedAtTimeout
        /\ fins[f].phase = "resolved" /\ ~fins[f].esOpen
        /\ fins[g].timeouts = 1 /\ ~fins[g].parsedAtTimeout
        /\ fins[g].responses # << >>
        /\ fins[g].phase = "resolved" /\ ~fins[g].esOpen

\* C16: at most one background voice-learning capture is in flight at any time,
\* under every interleaving of final results with stop(), reset() and start().
C16_SingleCapture == Len(bgTasks) <= 1

\* C17: a learn call whose capture started before a stop() or reset() does not
\* change the Voice Profile Store once that stop() or reset() has run.
C17_StaleLearnDiscarded ==
    [][(RecTaskDone /\ voiceCall'.stale) => voiceProfiles' = voiceProfiles]_vars

\* C18: after Recorder.reset() (new consultation) the Voice Profile Store holds
\* no profile.
C18_ResetClearsProfiles == [][NewConsultation => voiceProfiles' = << >>]_vars

\* C19: every recognition callback of an active session, whether it carries new
\* final results, only interim results, or a final result suppressed as a
\* duplicate, publishes finalizedBuffer + currentInterimText of that callback.
C19_PublishEveryCallback ==
    [][/\ \A ev \in Events :
             (RecOnResult /\ RecOnResultBody(ev))
                 => transcript' = finalRef' \o InterimText(ev)
       /\ \A ev \in Events :
             (VcOnResult /\ VcOnResultBody(ev))
                 => transcript' = finalTranscriptRef' \o InterimText(ev)]_vars

\* one complete labelled line carrying the final text of the callback ev
LabelledLines(ev, prefixes) ==
    {prefix \o Trim(FinalText(ev)) \o <<"\n">> : prefix \in prefixes}
RecPrefixes ==
    {getSpeakerPrefix(l, patientName, language) : l \in SpeakerLabels}
VcPrefixes ==
    {vcGetSpeakerPrefix(l, currentPatientName, language) : l \in SpeakerLabels}

\* start() and reset(), the steps that begin a new session with an empty buffer
RecSessionStart == (RecStartAcquired \/ NewConsultation) /\ finalRef' = << >>
VcSessionStart  == (VcStartAcquired \/ NewConsultation) /\ finalTranscriptRef' = << >>

\* C20: within one session every step either leaves the finalized buffer
\* unchanged or appends one complete labelled line at its end, the line of the
\* final text of that callback: earlier lines are never changed, removed or
\* reordered, and interim text never becomes part of the buffer.
C20_AppendOnly ==
    [][/\ \/ finalRef' = finalRef
           \/ RecSessionStart
           \/ \E ev \in Events :
                 /\ RecOnResult /\ RecOnResultBody(ev)
                 /\ \E line \in LabelledLines(ev, RecPrefixes) :
                       finalRef' = finalRef \o line
       /\ \/ finalTranscriptRef' = finalTranscriptRef
           \/ VcSessionStart
           \/ \E ev \in Events :
                 /\ VcOnResult /\ VcOnResultBody(ev)
                 /\ \E line \in LabelledLines(ev, VcPrefixes) :
                       finalTranscriptRef' = finalTranscriptRef \o line]_vars

\* C20 witness: a buffer of two lines, the second appended by a callback that
\* also carried interim text, which is published but not committed
C20_Witness ==
    /\ Len(SplitLines(finalRef)) = 2
    /\ Len(transcript) > Len(finalRef)
    /\ SubSeq(transcript, 1, Len(finalRef)) = finalRef

\* the labelling step applied to one final result text on the state st
LabelOne(text, st, comp) ==
    LET trimmedText == Trim(text)
        speakerType == AlternationLabel(st.count)
        prefix      == IF comp = "rec"
                       THEN getSpeakerPrefix(speakerType, patientName, language)
                       ELSE vcGetSpeakerPrefix(speakerType, currentPatientName, language)
    IN  IF trimmedText = st.last THEN st
        ELSE [count |-> st.count + 1, last |-> trimmedText,
              buf |-> st.buf \o prefix \o trimmedText \o <<"\n">>]

\* the labelling step applied to each final result of ev, in arrival order
RECURSIVE LabelEach(_, _, _)
LabelEach(ev, st, comp) ==
    IF ev = << >> THEN st
    ELSE LabelEach(Tail(ev),
                   IF Head(ev).isFinal THEN LabelOne(Head(ev).transcript, st, comp)
                   ELSE st,
                   comp)

\* C21: a callback that carries several final results labels each of them
\* separately and in arrival order: each has its own duplicate check, parity
\* label, counter increment and appended line.
C21_EachFinalLabelled ==
    [][/\ \A ev \in Events :
             (RecOnResult /\ RecOnResultBody(ev)) =>
                 LET st == LabelEach(ev, [count |-> speechCountRef,
                                          last |-> lastTranscriptRef,
                                          buf |-> finalRef], "rec")
                 IN  /\ finalRef' = st.buf
                     /\ speechCountRef' = st.count
                     /\ lastTranscriptRef' = st.last
       /\ \A ev \in Events :
             (VcOnResult /\ VcOnResultBody(ev)) =>
                 LET st == LabelEach(ev, [count |-> vcSpeechCountRef,
                                          last |-> vcLastTranscriptRef,
                                          buf |-> finalTranscriptRef], "vcc")
                 IN  /\ finalTranscriptRef' = st.buf
                     /\ vcSpeechCountRef' = st.count
                     /\ vcLastTranscriptRef' = st.last]_vars

\* C22: a recognition error event leaves the session stopped: the recording
\* indicator is off, the audio input is released and the recognition stream is
\* not running.
C22_ErrorLeavesStopped ==
    [][/\ RecOnError =>
             (~recording /\ streamRef = 0 /\ ~recStarted
              /\ \A i \in 1..Len(tracks) : tracks[i].owner = "rec" => ~tracks[i].live)'
       /\ VcOnError =>
             (status # "recording" /\ vcStreamRef = 0 /\ vcRecognitionRef # "started"
              /\ \A i \in 1..Len(tracks) : tracks[i].owner = "vcc" => ~tracks[i].live)'
      ]_vars

\* C23: when the fallback request fails, no diagnosis is produced for that
\* finalize action: the failing step leaves the result, the stored history and
\* the history list as they were and does not run onFinalizeComplete (the
\* recorder and the transcript are untouched), and the finalize action never
\* has a result or a persisted item afterwards.
C23_FailedFallbackProducesNothing ==
    /\ [](\A f \in 1..Len(fins) :
             fins[f].phase = "failed" =>
                 /\ fins[f].produced = << >> /\ fins[f].saved = << >>
                 /\ fins[f].responses = << >>)
    /\ [][FallbackFail =>
             /\ result' = result /\ storage' = storage /\ items' = items
             /\ transcript' = transcript /\ recVars' = recVars]_vars

\* C23 witness: a finalize action whose fallback failed after its timeout, the
\* result still empty and nothing stored
C23_Witness ==
    \E f \in 1..Len(fins) :
        /\ fins[f].phase = "failed" /\ fins[f].timeouts = 1
        /\ Len(fins[f].posts) = 1
        /\ result = "null" /\ ~storage.present /\ items = << >>

\* the finalize actions whose stream could not be opened
Unopened == {f \in 1..Len(fins) : fins[f].urls = << >>}

\* C24: when opening the stream throws, the finalize action goes directly to
\* the fallback: exactly one fallback request is issued, no timeout ever fires
\* for it and no stream is open and no chunk is received for it.
C24_ThrowGoesToFallback ==
    \A f \in Unopened :
        /\ Len(fins[f].posts) = 1
        /\ fins[f].posts[1] = PostBody(fins[f])
        /\ fins[f].phase \in {"fallback", "resolved", "failed"}
        /\ fins[f].timeouts = 0
        /\ ~fins[f].esOpen /\ fins[f].accumulatedData = << >>

\* C24 witness: a finalize action whose stream could not be opened, resolved by
\* the response of its one fallback request, after an earlier streamed one
C24_Witness ==
    \E f \in Unopened :
        /\ f > 1 /\ fins[1].urls # << >>
        /\ fins[f].phase = "resolved"
        /\ Len(fins[f].posts) = 1 /\ fins[f].produced = fins[f].responses
        /\ Len(fins[f].responses) = 1

\* C25: the background learning call never blocks, prevents or reorders the
\* visible transcript update: a callback with a non-duplicate final result
\* appends and publishes the line in the same step, whether or not a capture is
\* started or still in flight; a capture that ends, with a blob that decodes or
\* not, leaves the buffer, the counter, the duplicate guard, the published
\* transcript and the recognition untouched; and a pending capture does not
\* keep a callback from running.
C25_LearningNeverBlocks ==
    /\ [][\A ev \in Events :
             (/\ RecOnResult /\ RecOnResultBody(ev)
              /\ FinalText(ev) # << >>
              /\ Trim(FinalText(ev)) # lastTranscriptRef) =>
                 /\ \E line \in LabelledLines(ev, RecPrefixes) :
                       finalRef' = finalRef \o line
                 /\ transcript' = finalRef' \o InterimText(ev)
                 /\ speechCountRef' = speechCountRef + 1]_vars
    /\ [][RecTaskDone =>
             /\ finalRef' = finalRef /\ speechCountRef' = speechCountRef
             /\ lastTranscriptRef' = lastTranscriptRef
             /\ transcript' = transcript
             /\ recStarted' = recStarted /\ recording' = recording]_vars
    /\ []((recStarted /\ speechCountRef < MaxUtter /\ Len(bgTasks) < MaxTasks)
             => ENABLED RecOnResult)

\* C25 witness: two lines committed and published while the capture started by
\* the first is still in flight
C25_Witness ==
    /\ Len(bgTasks) = 1 /\ ~bgTasks[1].stale /\ isProcessingRef
    /\ speechCountRef = 2
    /\ Len(SplitLines(finalRef)) = 2
    /\ transcript = finalRef

\* a capture that did not decode has ended and a line was committed after it
C25_AfterFailedCapture ==
    /\ voiceCall.op = "learn" /\ ~voiceCall.audio.decodable
    /\ voiceProfiles = << >>
    /\ speechCountRef = 2 /\ Len(SplitLines(finalRef)) = 2

\* C26: after reset() (New Consultation) ran while a diagnosis was streaming, the
\* timeout callback of that finalize action does not set a result, persist a
\* HistoryItem or run onFinalizeComplete, in that callback or through its
\* fallback.
C26_ResetCancelsFinalize ==
    \A f \in 1..Len(fins) :
        fins[f].resetSeen => fins[f].produced = << >> /\ fins[f].saved = << >>

\* every finalize action has run to its end: no timer and no request is pending
Quiescent == \A f \in 1..Len(fins) : fins[f].phase \in {"resolved", "failed"}

\* C27: every finalize action leaves the loading state: once the timeout has
\* fired and every issued request has returned or failed, loading is false, also
\* when the fallback request failed.
C27_LoadingEnds == Quiescent => ~loading

\* C28: video-call capture is restartable: whenever its status is idle a
\* recognition instance is installed, so a startCapture that obtains a stream
\* with an audio track can reach status recording.
C28_IdleHasRecognition ==
    (mounted /\ status = "idle") => vcRecognitionRef # "null"

\* C29: whenever the Recorder's recording indicator is on, the installed
\* recognition instance has been started and an audio stream is held; a change
\* of language while recording does not leave the indicator on with a
\* recognizer that was never started.
C29_IndicatorMeansRecording ==
    recording => (recStarted /\ streamRef # 0)

\* C30: no audio input is leaked by the Recorder: every stream it acquired is
\* either the one the session holds now or has had its tracks stopped, under
\* every interleaving of start(), stop() and reset() with the acquisition
\* inside start().
C30_NoLeakedInput ==
    \A i \in 1..Len(tracks) :
        (tracks[i].owner = "rec" /\ tracks[i].live) => streamRef = i

====
